---------------------------- MODULE Spec2Model ----------------------------
(***************************************************************************)
(* A model of nse_wyckoff_scanner.py: the symbol source                    *)
(* (get_nse_symbol_list), the markup detector (detect_markup) and the      *)
(* sequential scan driver (main).                                          *)
(*                                                                         *)
(* Conventions.                                                            *)
(*  - A string the code builds or takes apart is a sequence of tokens,     *)
(*    the exchange suffix ".NS" being one token: "TCS.NS" is               *)
(*    <<"TCS", ".NS">>.                                                    *)
(*  - A data frame is a record [shape, bars]: bars is the sequence of its  *)
(*    rows, shape says whether a cell read such as df["High"].iloc[i] is a *)
(*    scalar ("scalar") or itself a one-element Series ("frame", what a    *)
(*    provider answering with multi-level columns produces).               *)
(*  - Prices and volumes are positive integers; the float products         *)
(*    x * (1 + 0.05) and mean * 1.5 are compared exactly, as rationals.    *)
(*  - The wall-clock timestamp of the summary is left out.                 *)
(***************************************************************************)
EXTENDS Integers, Sequences, FiniteSets

VARIABLES
    pc,                 \* position of the control thread
    response,           \* what the symbol-list endpoint answers
    symbols,            \* main: symbols
    i,                  \* main: enumerate index of the current symbol
    df,                 \* main: the frame being processed
    markup_candidates,  \* main: markup_candidates
    markup_data,        \* main: markup_data
    summary,            \* main: summary
    files,              \* contents of the two output files
    log,                \* the observable steps so far: requests, prints, sleeps, writes
    result              \* the value returned by a direct call of detect_markup

vars == <<pc, response, symbols, i, df, markup_candidates, markup_data,
          summary, files, log, result>>

-----------------------------------------------------------------------------
(* Configuration                                                           *)

ACCUMULATION_RANGE == 30

\* BREAKOUT_THRESHOLD = 0.05, in percent
BREAKOUT_PCT == 5

\* VOLUME_MULTIPLIER = 1.5, in tenths
VOLUME_MULTIPLIER_X10 == 15

\* the literal 10 of df[-10:]
TREND_WINDOW == 10

SUFFIX == ".NS"

-----------------------------------------------------------------------------
(* Bounds of the model                                                     *)

\* longest "data" list of a symbol-list payload
MaxItems == 2

\* bars that vary freely at the end of a Series given to the detector
MaxTail == 2

\* a Series given to the detector has up to ACCUMULATION_RANGE + MaxExtra bars
MaxExtra == 1

-----------------------------------------------------------------------------
(* Generic sequence helpers                                                *)

\* Python's s[-n:]: the last n elements, all of s when it has fewer
LastN(s, n) == IF Len(s) <= n THEN s ELSE SubSeq(s, Len(s) - n + 1, Len(s))

Range(s) == {s[k] : k \in DOMAIN s}


-----------------------------------------------------------------------------
(* Symbol source: get_nse_symbol_list                                      *)

\* What the remote endpoint can answer.  kind is
\*   "neterror"  one of the two GETs raises (offline, timeout, refused)
\*   "nonjson"   the body is not JSON (an HTML block page): r.json() raises
\*   "notdict"   the body is JSON but not an object (a list, null)
\*   "nodata"    a JSON object without a "data" member (an error object)
\*   "datanull"  a JSON object whose "data" is null
\*   "items"     a JSON object whose "data" is the list in field data
\* An item of the list is
\*   "notdict"   not an object           "nosymbol"  an object without "symbol"
\*   "empty"     "symbol" is ""          "number"    "symbol" is a number
\*   "name"      "symbol" is the string in field name
ItemKinds == {"notdict", "nosymbol", "empty", "number", "name"}

Names == {<<"A">>, <<"B">>}

Items ==
    {[kind |-> k, name |-> <<>>] : k \in ItemKinds \ {"name"}}
        \cup {[kind |-> "name", name |-> n] : n \in Names}

ItemLists == UNION {[1..n -> Items] : n \in 0..MaxItems}

Responses ==
    {[kind |-> k, data |-> <<>>] :
        k \in {"neterror", "nonjson", "notdict", "nodata", "datanull"}}
        \cup {[kind |-> "items", data |-> d] : d \in ItemLists}

\* the response once read: it is no part of the program's state
Consumed == [kind |-> "consumed", data |-> <<>>]

FALLBACK ==
    << <<"RELIANCE", SUFFIX>>, <<"TCS", SUFFIX>>, <<"HDFCBANK", SUFFIX>>,
       <<"INFY", SUFFIX>>, <<"LT", SUFFIX>> >>

\* [item["symbol"] + ".NS" for item in data if item.get("symbol")]:
\* exc when the comprehension raises, else val is the list built
RECURSIVE SymbolComprehension(_)
SymbolComprehension(data) ==
    IF data = <<>> THEN [exc |-> FALSE, val |-> <<>>]
    ELSE LET item == Head(data)
             rest == SymbolComprehension(Tail(data))
         IN  CASE item.kind = "notdict" -> [exc |-> TRUE, val |-> <<>>]
               [] item.kind \in {"nosymbol", "empty"} -> rest
               [] item.kind = "number" -> [exc |-> TRUE, val |-> <<>>]
               [] OTHER ->
                    IF rest.exc THEN rest
                    ELSE [exc |-> FALSE,
                          val |-> <<item.name \o <<SUFFIX>>>> \o rest.val]

\* the body of the try block: exc when it raises, else val is returned
SymbolTry(r) ==
    CASE r.kind \in {"neterror", "nonjson", "notdict", "datanull"} ->
            [exc |-> TRUE, val |-> <<>>]
      [] r.kind = "nodata" -> SymbolComprehension(<<>>)
      [] OTHER -> SymbolComprehension(r.data)

get_nse_symbol_list(r) ==
    LET t == SymbolTry(r) IN IF t.exc THEN FALLBACK ELSE t.val

-----------------------------------------------------------------------------
(* Markup detector: detect_markup                                          *)

\* recent["High"].max()
RECURSIVE MaxHigh(_)
MaxHigh(bars) ==
    IF Len(bars) = 1 THEN bars[1].High
    ELSE LET m == MaxHigh(Tail(bars))
         IN  IF bars[1].High >= m THEN bars[1].High ELSE m

\* the sum behind recent["Volume"].mean()
RECURSIVE SumVolume(_)
SumVolume(bars) ==
    IF bars = <<>> THEN 0 ELSE bars[1].Volume + SumVolume(Tail(bars))

\* all(w["High"].iloc[k] >= w["High"].iloc[k-1] for k in range(1, len(w)))
RECURSIVE AllHighsRise(_, _)
AllHighsRise(w, k) ==
    IF k > Len(w) THEN TRUE
    ELSE IF w[k].High >= w[k - 1].High THEN AllHighsRise(w, k + 1) ELSE FALSE

\* all(w["Low"].iloc[k] >= w["Low"].iloc[k-1] for k in range(1, len(w)))
RECURSIVE AllLowsRise(_, _)
AllLowsRise(w, k) ==
    IF k > Len(w) THEN TRUE
    ELSE IF w[k].Low >= w[k - 1].Low THEN AllLowsRise(w, k + 1) ELSE FALSE

Returned(b) == [exc |-> FALSE, ret |-> b]

Raised == [exc |-> TRUE, ret |-> FALSE]

\* a guard off by one: Series of ACCUMULATION_RANGE - 1 bars pass
TooShortOffByOne(f) == Len(f.bars) < ACCUMULATION_RANGE - 1

\* len(df) < ACCUMULATION_RANGE
TooShort(f) == Len(f.bars) < ACCUMULATION_RANGE

\* a window that leaves out the bar being tested: df[-ACCUMULATION_RANGE-1:-1]
RecentWindowBeforeLast(bars) ==
    LastN(SubSeq(bars, 1, Len(bars) - 1), ACCUMULATION_RANGE)

\* recent = df[-ACCUMULATION_RANGE:]
RecentWindow(bars) == LastN(bars, ACCUMULATION_RANGE)

\* a strict comparison turned non-strict
BreakoutNonStrict(last_close, acc_high) ==
    last_close * 100 >= acc_high * (100 + BREAKOUT_PCT)

\* last_close > acc_high * (1 + BREAKOUT_THRESHOLD)
Breakout(last_close, acc_high) ==
    last_close * 100 > acc_high * (100 + BREAKOUT_PCT)

\* df["Volume"].iloc[-1] > avg_vol * VOLUME_MULTIPLIER, avg_vol = sum / count
VolBreakout(last_vol, sum, count) ==
    last_vol * count * 10 > sum * VOLUME_MULTIPLIER_X10

\* the body of the try block: exc when it raises, else ret is returned.
\* On a "frame"-shaped df every cell read is a Series, the comparisons give
\* Series, and the first truth test of one (inside all(...)) raises ValueError.
DetectTry(f) ==
    IF TooShort(f) THEN Returned(FALSE)
    ELSE IF f.shape = "frame" THEN Raised
    ELSE LET bars == f.bars
             recent == RecentWindow(bars)
             acc_high == MaxHigh(recent)
             last_close == bars[Len(bars)].Close
             breakout == Breakout(last_close, acc_high)
             vol_breakout ==
                 VolBreakout(bars[Len(bars)].Volume, SumVolume(recent), Len(recent))
             recent_10 == LastN(bars, TREND_WINDOW)
         IN  IF Len(recent_10) < 2 THEN Returned(breakout /\ vol_breakout)
             ELSE LET higher_highs == AllHighsRise(recent_10, 2)
                      higher_lows == AllLowsRise(recent_10, 2)
                  IN  Returned(breakout /\ vol_breakout
                                   /\ (higher_highs \/ higher_lows))

\* a handler that lets the exception through
DetectExceptReraise == Raised

\* except Exception: print(...); return False
DetectExcept == Returned(FALSE)

detect_markup(f) ==
    LET t == DetectTry(f) IN IF t.exc THEN DetectExcept ELSE t

-----------------------------------------------------------------------------
(* Series and frames the model draws its inputs from                       *)

\* one row; na says that one of the five required cells is missing (NaN)
Bar(h, l, c, v) == [High |-> h, Low |-> l, Close |-> c, Volume |-> v, na |-> FALSE]

Frame(shape, bars) == [shape |-> shape, bars |-> bars]

\* df before the first download
NoFrame == Frame("scalar", <<>>)

\* bars a Series is padded with, and its first bar
BaseBars == {Bar(20, 19, 20, 20), Bar(21, 20, 21, 20)}

\* the bars before the last one
PrevBars == {Bar(h, l, 20, v) : h \in {20, 21}, l \in {19, 20}, v \in {10, 20}}

\* the last bar
LastBars ==
    {Bar(h, l, c, v) : h \in {20, 21, 22}, l \in {19, 20}, c \in {21, 22, 23},
                       v \in {20, 30, 40}}

Tails == {t \o <<b>> : t \in [1..(MaxTail - 1) -> PrevBars], b \in LastBars}

\* n bars: head, then base repeated, then tail (of tail alone its last n bars)
Series(n, head, base, tail) ==
    IF n <= Len(tail) THEN LastN(tail, n)
    ELSE [j \in 1..n |->
             IF j > n - Len(tail) THEN tail[j - (n - Len(tail))]
             ELSE IF j = 1 THEN head ELSE base]

\* what the historical-data provider answers in the driver
FlatBase == Bar(20, 19, 20, 20)

\* the lengths of the Series given to the detector
Lengths == 0..(ACCUMULATION_RANGE + MaxExtra)

HitBars ==
    Series(ACCUMULATION_RANGE, FlatBase, FlatBase, <<Bar(20, 19, 22, 40)>>)

MissBars ==
    Series(ACCUMULATION_RANGE, FlatBase, FlatBase, <<Bar(20, 19, 21, 40)>>)

\* a markup Series one of whose rows is incomplete
GapBars == [HitBars EXCEPT ![1].na = TRUE]

FetchFrames ==
    {Frame("scalar", <<>>), Frame("scalar", HitBars), Frame("scalar", MissBars),
     Frame("scalar", GapBars), Frame("frame", HitBars)}

-----------------------------------------------------------------------------
(* Driver: main                                                            *)

\* one observable step: a request, a printed line, a sleep, a file write
Ev(op, arg) == [op |-> op, arg |-> arg]

\* sym.replace(".NS", "")
Strip(sym) == SelectSeq(sym, LAMBDA t : t # SUFFIX)

\* df[["Open", "High", "Low", "Close", "Volume"]].dropna()
DropNa(f) == [f EXCEPT !.bars = SelectSeq(f.bars, LAMBDA b : ~b.na)]

\* df.reset_index().to_dict(orient="records")
ToRecords(f) == f.bars

\* markup_data[name] = records
SetItem(d, name, records) ==
    [n \in DOMAIN d \cup {name} |-> IF n = name THEN records ELSE d[n]]

\* a loop that leaves out the last symbol
LoopStopsEarly(n, syms) == n + 1 < Len(syms)

\* for i, sym in enumerate(symbols, 1): another symbol is left
LoopHasNext(n, syms) == n < Len(syms)

\* a handler that gives up the run
ExceptHandlerAbort == "aborted"

\* except Exception: print(...), then on to time.sleep(0.2)
ExceptHandler == "sleep"

\* continue: back to the loop header, past time.sleep(0.2)
ContinueTarget == "loop"

\* a summary that counts the flagged symbols as the scanned ones
SummaryMiscounted(syms, cands) ==
    [total_scanned |-> Len(cands), markup_count |-> Len(cands),
     markup_candidates |-> cands]

\* summary = {...}
Summary(syms, cands) ==
    [total_scanned |-> Len(syms), markup_count |-> Len(cands),
     markup_candidates |-> cands]

EmptyDataset == [n \in {} |-> <<>>]

Init ==
    /\ pc = "start"
    /\ response \in Responses
    /\ symbols = <<>>
    /\ i = 0
    /\ df = NoFrame
    /\ markup_candidates = <<>>
    /\ markup_data = EmptyDataset
    /\ summary = Summary(<<>>, <<>>)
    /\ files = [summary |-> <<>>, data |-> <<>>]
    /\ log = <<>>
    /\ result = Returned(FALSE)

\* symbols = get_nse_symbol_list(); markup_candidates = []; markup_data = {}
GetSymbolList ==
    /\ pc = "start"
    /\ symbols' = get_nse_symbol_list(response)
    /\ response' = Consumed
    /\ markup_candidates' = <<>>
    /\ markup_data' = EmptyDataset
    /\ pc' = "loop"
    /\ UNCHANGED <<i, df, summary, files, log, result>>

\* yf.download(sym, ...) for the next symbol: it raises, or answers a frame;
\* an empty frame is skipped with continue
Download ==
    /\ pc = "loop"
    /\ LoopHasNext(i, symbols)
    /\ i' = i + 1
    /\ LET sym == symbols[i + 1]
           req == Append(log, Ev("download", sym))
       IN  \/ /\ log' = Append(req, Ev("print", <<"Error">> \o sym))
              /\ pc' = ExceptHandler
              /\ df' = df
           \/ \E f \in FetchFrames :
                 /\ df' = f
                 /\ IF f.bars = <<>>
                    THEN /\ log' = Append(req, Ev("print", <<"No data">> \o sym))
                         /\ pc' = ContinueTarget
                    ELSE /\ log' = req
                         /\ pc' = "classify"
    /\ UNCHANGED <<response, symbols, markup_candidates, markup_data, summary,
                   files, result>>

\* the rest of the try block: clean, classify, record
Classify ==
    /\ pc = "classify"
    /\ LET sym == symbols[i]
           clean == DropNa(df)
           d == detect_markup(clean)
           name == Strip(sym)
       IN  /\ df' = clean
           /\ IF d.exc
              THEN /\ log' = Append(log, Ev("print", <<"Error">> \o sym))
                   /\ pc' = ExceptHandler
                   /\ UNCHANGED <<markup_candidates, markup_data>>
              ELSE IF d.ret
              THEN /\ markup_candidates' = Append(markup_candidates, name)
                   /\ \/ /\ markup_data' = SetItem(markup_data, name, ToRecords(clean))
                         /\ log' = Append(log, Ev("print", <<"MARKUP">> \o name))
                         /\ pc' = "sleep"
                      \/ /\ markup_data' = markup_data
                         /\ log' = Append(log, Ev("print", <<"Error">> \o sym))
                         /\ pc' = ExceptHandler
              ELSE /\ log' = Append(log, Ev("print", <<"OK">> \o sym))
                   /\ pc' = "sleep"
                   /\ UNCHANGED <<markup_candidates, markup_data>>
    /\ UNCHANGED <<response, symbols, i, summary, files, result>>

\* time.sleep(0.2)
Sleep ==
    /\ pc = "sleep"
    /\ log' = Append(log, Ev("sleep", <<>>))
    /\ pc' = "loop"
    /\ UNCHANGED <<response, symbols, i, df, markup_candidates, markup_data,
                   summary, files, result>>

\* the loop is over: build the summary
BuildSummary ==
    /\ pc = "loop"
    /\ ~LoopHasNext(i, symbols)
    /\ summary' = Summary(symbols, markup_candidates)
    /\ pc' = "write_summary"
    /\ UNCHANGED <<response, symbols, i, df, markup_candidates, markup_data,
                   files, log, result>>

\* open(markup_candidates.json, "w"); json.dump(summary): it succeeds, or
\* open raises and the run ends there
WriteSummary ==
    /\ pc = "write_summary"
    /\ \/ /\ files' = [files EXCEPT !.summary = Append(@, summary)]
          /\ log' = Append(log, Ev("write", <<"markup_candidates.json">>))
          /\ pc' = "write_data"
       \/ /\ pc' = "crashed"
          /\ UNCHANGED <<files, log>>
    /\ UNCHANGED <<response, symbols, i, df, markup_candidates, markup_data,
                   summary, result>>

\* open(markup_stock_data.json, "w"); json.dump(markup_data)
WriteData ==
    /\ pc = "write_data"
    /\ \/ /\ files' = [files EXCEPT !.data = Append(@, markup_data)]
          /\ log' = Append(log, Ev("write", <<"markup_stock_data.json">>))
          /\ pc' = "print_summary"
       \/ /\ pc' = "crashed"
          /\ UNCHANGED <<files, log>>
    /\ UNCHANGED <<response, symbols, i, df, markup_candidates, markup_data,
                   summary, result>>

\* print("Scan complete."); print(json.dumps(summary))
PrintSummary ==
    /\ pc = "print_summary"
    /\ log' = Append(log, Ev("print", <<"Scan complete.">>))
    /\ pc' = "done"
    /\ UNCHANGED <<response, symbols, i, df, markup_candidates, markup_data,
                   summary, files, result>>

Next ==
    \/ GetSymbolList
    \/ Download
    \/ Classify
    \/ Sleep
    \/ BuildSummary
    \/ WriteSummary
    \/ WriteData
    \/ PrintSummary

Spec == Init /\ [][Next]_vars

\* one thread runs the steps in order and every call returns
FairSpec == Spec /\ WF_vars(Next)

-----------------------------------------------------------------------------
(* A direct call of detect_markup on a Series                              *)

InitDetect ==
    /\ pc = "detect_call"
    /\ response = Consumed
    /\ symbols = <<>>
    /\ i = 0
    /\ \E sh \in {"scalar", "frame"}, n \in Lengths, hd \in BaseBars, t \in Tails :
           df = Frame(sh, Series(n, hd, FlatBase, t))
    /\ markup_candidates = <<>>
    /\ markup_data = EmptyDataset
    /\ summary = Summary(<<>>, <<>>)
    /\ files = [summary |-> <<>>, data |-> <<>>]
    /\ log = <<>>
    /\ result = Returned(FALSE)

DetectCall ==
    /\ pc = "detect_call"
    /\ result' = detect_markup(df)
    /\ pc' = "detect_return"
    /\ UNCHANGED <<response, symbols, i, df, markup_candidates, markup_data,
                   summary, files, log>>

NextDetect == DetectCall

SpecDetect == InitDetect /\ [][NextDetect]_vars

-----------------------------------------------------------------------------
(* Properties                                                              *)

PostLoop == {"write_summary", "write_data", "print_summary", "done", "crashed"}

\* the symbols requested from the provider so far, in order
Requested == [k \in DOMAIN SelectSeq(log, LAMBDA e : e.op = "download") |->
                 SelectSeq(log, LAMBDA e : e.op = "download")[k].arg]

Printed(tag) == \E k \in DOMAIN log : log[k].op = "print" /\ Head(log[k].arg) = tag

LastBar == df.bars[Len(df.bars)]

\* C1: after a run of main(), the set of names in markup_candidates equals
\* the set of keys of the markup dataset, whatever happened to each symbol.
C1_CandidatesMatchDataset ==
    pc \in PostLoop => Range(markup_candidates) = DOMAIN markup_data

\* C2: in the summary main() builds, markup_count is the length of
\* markup_candidates and total_scanned is the number of symbols of the
\* Universe, whatever happened to each symbol.
C2_SummaryCounts ==
    pc \in PostLoop =>
        /\ summary.markup_count = Len(summary.markup_candidates)
        /\ summary.markup_candidates = markup_candidates
        /\ summary.total_scanned = Len(symbols)

C2_Witness ==
    /\ pc = "done"
    /\ Printed("Error") /\ Printed("No data") /\ Printed("MARKUP") /\ Printed("OK")
    /\ summary.markup_count > 0
    /\ summary.markup_count < summary.total_scanned

\* a payload that is not {"data": [objects with a "symbol" string]}
Malformed(r) ==
    \/ r.kind \in {"notdict", "nodata", "datanull"}
    \/ /\ r.kind = "items"
       /\ \E k \in DOMAIN r.data : r.data[k].kind \in {"notdict", "nosymbol", "number"}

\* C3: get_nse_symbol_list returns the fallback list on every failure of the
\* retrieval (network error, non-JSON response, malformed payload).
C3_FailureGivesFallback ==
    [][(pc = "start" /\ (response.kind \in {"neterror", "nonjson"} \/ Malformed(response)))
          => symbols' = FALLBACK]_vars

\* C4: a Series with fewer than ACCUMULATION_RANGE bars is never flagged,
\* and detect_markup does not raise on it.
C4_ShortSeriesNotFlagged ==
    (pc = "detect_return" /\ Len(df.bars) < ACCUMULATION_RANGE)
        => result = Returned(FALSE)

C4_Witness ==
    /\ pc = "detect_return"
    /\ df.shape = "scalar"
    /\ Len(df.bars) = ACCUMULATION_RANGE - 1
    /\ LastBar.Close = 23 /\ LastBar.Volume = 40
    /\ \A k \in DOMAIN df.bars : df.bars[k].High = 20 /\ df.bars[k].Low = 19
    /\ result = Returned(FALSE)

\* the three conditions of C5, stated over the bars of df
C5Breakout ==
    \A k \in DOMAIN df.bars :
        k > Len(df.bars) - ACCUMULATION_RANGE
            => 100 * LastBar.Close > 105 * df.bars[k].High

C5VolBreakout ==
    2 * ACCUMULATION_RANGE * LastBar.Volume
        > 3 * SumVolume(SubSeq(df.bars, Len(df.bars) - ACCUMULATION_RANGE + 1,
                               Len(df.bars)))

C5Highs ==
    \A k \in DOMAIN df.bars :
        k > Len(df.bars) - TREND_WINDOW + 1 => df.bars[k].High >= df.bars[k - 1].High

C5Lows ==
    \A k \in DOMAIN df.bars :
        k > Len(df.bars) - TREND_WINDOW + 1 => df.bars[k].Low >= df.bars[k - 1].Low

\* C5: on a well-formed Series of at least ACCUMULATION_RANGE bars,
\* detect_markup returns true exactly when the last close is above 1.05 times
\* the highest high of the last ACCUMULATION_RANGE bars, the last volume is
\* above 1.5 times their mean volume, and over the last 10 bars the highs
\* never fall or the lows never fall.
C5_DetectorFormula ==
    (pc = "detect_return" /\ df.shape = "scalar"
        /\ Len(df.bars) >= ACCUMULATION_RANGE)
        => /\ ~result.exc
           /\ result.ret <=> (C5Breakout /\ C5VolBreakout /\ (C5Highs \/ C5Lows))

C5_Witness ==
    /\ pc = "detect_return"
    /\ df.shape = "scalar"
    /\ Len(df.bars) >= ACCUMULATION_RANGE
    /\ C5Breakout /\ C5VolBreakout /\ ~C5Highs /\ ~C5Lows
    /\ result = Returned(FALSE)

\* C6: a failure on one symbol never ends the run: every run requests each
\* symbol of the Universe once, in order, and reaches the stage where the
\* summary is built.
C6_RunCompletes == <>(pc = "write_summary" /\ Requested = symbols)

C6_Witness ==
    /\ pc = "write_summary"
    /\ Len(symbols) >= 2
    /\ Requested = symbols
    /\ log[2] = Ev("print", <<"Error">> \o symbols[1])
    /\ Printed("No data")

\* C7: when the detector's computation fails on a Series, detect_markup
\* returns false instead of raising, and the driver treats the symbol as not
\* flagged: the flagged list and the markup dataset stay as they are.
C7_DetectorFailureNotFlagged ==
    [][(pc = "classify" /\ DetectTry(DropNa(df)).exc)
          => /\ detect_markup(DropNa(df)) = Returned(FALSE)
             /\ markup_candidates' = markup_candidates
             /\ markup_data' = markup_data
             /\ log' = Append(log, Ev("print", <<"OK">> \o symbols[i]))
             /\ pc' = "sleep"]_vars

C7_Witness ==
    /\ pc = "sleep"
    /\ DetectTry(df).exc
    /\ log[Len(log)] = Ev("print", <<"OK">> \o symbols[i])
    /\ markup_candidates # <<>>

\* C8: the two output files are written only after the last symbol of the
\* Universe has been processed, each at most once, and what is written is
\* the final state of the two collections.
C8_WrittenOnceAtEnd ==
    /\ (\E k \in DOMAIN log : log[k].op = "write")
           => pc \in PostLoop /\ i = Len(symbols) /\ Requested = symbols
    /\ Len(files.summary) <= 1 /\ Len(files.data) <= 1
    /\ Len(SelectSeq(log, LAMBDA e : e.op = "write"))
           = Len(files.summary) + Len(files.data)
    /\ files.summary # <<>>
           => files.summary[1].markup_candidates = markup_candidates
    /\ files.data # <<>> => files.data[1] = markup_data

C8_Witness ==
    /\ pc = "done"
    /\ Len(symbols) >= 2
    /\ files.summary = <<summary>> /\ files.data = <<markup_data>>
    /\ Len(markup_candidates) >= 2
    /\ Printed("Error")

\* C9: between the request for a symbol and the request for the next one a
\* delay step always occurs, whatever the outcome of the earlier symbol.
C9_DelayBetweenRequests ==
    \A j, k \in DOMAIN log :
        (j < k /\ log[j].op = "download" /\ log[k].op = "download")
            => \E m \in (j + 1)..(k - 1) : log[m].op = "sleep"

\* C10: a Series whose last close is not above its last high is never
\* flagged, the last bar being part of the window acc_high is taken over.
C10_CloseWithinOwnHighNotFlagged ==
    (pc = "detect_return" /\ df.bars # <<>> /\ LastBar.Close <= LastBar.High)
        => ~result.ret

C10_Witness ==
    /\ pc = "detect_return"
    /\ df.shape = "scalar"
    /\ Len(df.bars) = ACCUMULATION_RANGE
    /\ LastBar.Close = 22 /\ LastBar.High = 22 /\ LastBar.Volume = 40
    /\ \A k \in 1..(Len(df.bars) - 1) : df.bars[k].High = 20
    /\ result = Returned(FALSE)

=============================================================================
